---- MODULE Spec2Model ----
(***************************************************************************)
(* Model of the SebGuru Assistant extension (src/extension.js, the current *)
(* version of the file that starts at line 1048): the LLMClient, the way   *)
(* it shapes an outbound request, the way makeLocalRequest and            *)
(* makeSebGuruRequest take the text out of a response payload, and the     *)
(* handlers of the user's actions: the commands that ask the model and the *)
(* two chats with their histories.                                         *)
(*                                                                         *)
(* JSON values are tagged records.  A JavaScript number is an integer      *)
(* here; a temperature is counted in tenths (0.7 is 7).                    *)
(***************************************************************************)
EXTENDS Integers, Sequences, FiniteSets, TLC

VARIABLES client, call, chatHistory, handlers, shown, loading, bench, webview

vars == <<client, call, chatHistory, handlers, shown, loading, bench, webview>>

\* the chat histories, the handlers of the user's actions and the error
\* messages shown to the user
uiVars == <<chatHistory, handlers, shown, loading, bench, webview>>

(***************************************************************************)
(* JSON / JavaScript values                                                *)
(***************************************************************************)
Str(s) == [t |-> "str", s |-> s]
Num(n) == [t |-> "num", n |-> n]
Bool(b) == [t |-> "bool", b |-> b]
Null == [t |-> "null"]
Undef == [t |-> "undef"]
Obj(f) == [t |-> "obj", f |-> f]
Arr(e) == [t |-> "arr", e |-> e]
Field(k, v) == [k |-> k, v |-> v]

\* v == null (true of null and of undefined)
IsNullish(v) == v.t \in {"null", "undef"}

\* typeof v === 'string', as it would be if the test were v && typeof v === 'string'
IsStringEmptyIsNone(v) == v.t = "str" /\ v.s # ""
IsString(v) == v.t = "str"

\* typeof v === 'object' for a value that is not null
IsObject(v) == v.t \in {"obj", "arr"}

\* the truthiness JavaScript gives a value in `if (v)` and `v && ...`
Truthy(v) ==
  CASE v.t = "str" -> v.s # ""
    [] v.t = "num" -> v.n # 0
    [] v.t = "bool" -> v.b
    [] v.t \in {"null", "undef"} -> FALSE
    [] OTHER -> TRUE

RECURSIVE Lookup(_, _)
Lookup(f, key) ==
  IF f = <<>> THEN Undef
  ELSE IF Head(f).k = key THEN Head(f).v
  ELSE Lookup(Tail(f), key)

\* v[key] for a value v that is not null or undefined (on those the access
\* throws a TypeError, which the callers model).  A string or a number has
\* none of the field names the code reads, except length.
Get(v, key) ==
  CASE v.t = "obj" -> Lookup(v.f, key)
    [] v.t = "arr" -> IF key = "length" THEN Num(Len(v.e)) ELSE Undef
    [] v.t = "str" -> IF key = "length" THEN Num(Len(v.s)) ELSE Undef
    [] OTHER -> Undef

\* v[0]; the first character of a string is a string, and a string has no
\* message and no text property, which is all the code reads of it
Index0(v) ==
  CASE v.t = "arr" -> IF v.e = <<>> THEN Undef ELSE Head(v.e)
    [] v.t = "obj" -> Lookup(v.f, "0")
    [] v.t = "str" -> IF v.s = "" THEN Undef ELSE Str("c")
    [] OTHER -> Undef

\* v > 0 for the values a length can have here
Gt0(v) == v.t = "num" /\ v.n > 0

\* Object.keys(v).length
NumKeys(v) ==
  CASE v.t = "obj" -> Len(v.f)
    [] v.t = "arr" -> Len(v.e)
    [] OTHER -> 0

RECURSIVE JSONstringify(_)
RECURSIVE StringifyFields(_, _)
RECURSIVE StringifyItems(_, _)
\* JSON.stringify(v); the strings of the model hold no character that
\* needs an escape
JSONstringify(v) ==
  CASE v.t = "str" -> "\"" \o v.s \o "\""
    [] v.t = "num" -> ToString(v.n)
    [] v.t = "bool" -> IF v.b THEN "true" ELSE "false"
    [] v.t = "obj" -> "{" \o StringifyFields(v.f, TRUE) \o "}"
    [] v.t = "arr" -> "[" \o StringifyItems(v.e, TRUE) \o "]"
    [] OTHER -> "null"
StringifyFields(f, first) ==
  IF f = <<>> THEN ""
  ELSE IF Head(f).v.t = "undef" THEN StringifyFields(Tail(f), first)
  ELSE (IF first THEN "" ELSE ",") \o "\"" \o Head(f).k \o "\":"
         \o JSONstringify(Head(f).v) \o StringifyFields(Tail(f), FALSE)
StringifyItems(e, first) ==
  IF e = <<>> THEN ""
  ELSE (IF first THEN "" ELSE ",") \o JSONstringify(Head(e))
         \o StringifyItems(Tail(e), FALSE)

(***************************************************************************)
(* What a step of the response handling yields                             *)
(***************************************************************************)
Return(v) == [kind |-> "return", value |-> v]
Throw(m) == [kind |-> "throw", value |-> Str(m)]
NoMatch == [kind |-> "none", value |-> Undef]


(***************************************************************************)
(* extractTextContent (src/extension.js 1057-1101)                         *)
(***************************************************************************)
MaxDepth == 5

\* the field names extractTextContent looks at first, in this order
textFields ==
  <<"content", "text", "message", "response", "output", "result", "answer",
    "generated_text">>

\* if (depth > 5) return null; the variant stops one level earlier
DepthExceededOneEarly(depth) == depth >= MaxDepth
DepthExceeded(depth) == depth > MaxDepth

RECURSIVE extractTextContent(_, _)
RECURSIVE ExtractFromItems(_, _)
RECURSIVE ExtractFromNamed(_, _, _)
RECURSIVE ExtractFromAll(_, _)
\* the value returned is a string or null
extractTextContent(obj, depth) ==
  IF DepthExceeded(depth) THEN Null
  ELSE IF IsNullish(obj) THEN Null
  ELSE IF IsString(obj) THEN obj
  ELSE IF obj.t = "arr" THEN ExtractFromItems(obj.e, depth)
  ELSE IF obj.t = "obj" THEN
    LET named == ExtractFromNamed(obj, textFields, depth)
    IN  IF named.kind = "return" THEN named.value
        ELSE ExtractFromAll(obj.f, depth)
  ELSE Null
\* for (const item of obj) { text = extractTextContent(item, depth + 1); if (text) return text }
ExtractFromItems(items, depth) ==
  IF items = <<>> THEN Null
  ELSE LET text == extractTextContent(Head(items), depth + 1)
       IN  IF Truthy(text) THEN text ELSE ExtractFromItems(Tail(items), depth)
\* for (const field of textFields) { if (obj[field]) ... }
ExtractFromNamed(obj, fields, depth) ==
  IF fields = <<>> THEN NoMatch
  ELSE LET v == Get(obj, Head(fields))
       IN  IF Truthy(v) /\ IsString(v) THEN Return(v)
           ELSE IF Truthy(v) /\ Truthy(extractTextContent(v, depth + 1))
             THEN Return(extractTextContent(v, depth + 1))
           ELSE ExtractFromNamed(obj, Tail(fields), depth)
\* for (const key in obj) { text = extractTextContent(obj[key], depth + 1); if (text) return text }
ExtractFromAll(f, depth) ==
  IF f = <<>> THEN Null
  ELSE LET text == extractTextContent(Head(f).v, depth + 1)
       IN  IF Truthy(text) THEN text ELSE ExtractFromAll(Tail(f), depth)

(***************************************************************************)
(* The response handling of makeLocalRequest (src/extension.js 1276-1335)  *)
(***************************************************************************)
TypeError == Throw("TypeError")

\* lines 1278-1283: the choices branch, entered when choices is truthy and
\* its length is > 0; once entered, none of the else-if branches is tried
ChoicesBranch(data) ==
  LET c0 == Index0(Get(data, "choices"))
  IN  IF IsNullish(c0) THEN TypeError
      ELSE IF Truthy(Get(c0, "message"))
        THEN Return(Get(Get(c0, "message"), "content"))
      ELSE IF Truthy(Get(c0, "text")) THEN Return(Get(c0, "text"))
      ELSE NoMatch

\* lines 1284-1293: the else-if branches
KnownFormats(data) ==
  IF Truthy(Get(data, "message")) /\ Truthy(Get(Get(data, "message"), "content"))
    THEN Return(Get(Get(data, "message"), "content"))
  ELSE IF Truthy(Get(data, "response")) THEN Return(Get(data, "response"))
  ELSE IF Truthy(Get(data, "output")) THEN Return(Get(data, "output"))
  ELSE IF IsString(data) THEN Return(data)
  ELSE NoMatch

\* lines 1278-1293 as a whole
RecognizedFormat(data) ==
  LET choices == Get(data, "choices")
  IN  IF Truthy(choices) /\ Gt0(Get(choices, "length"))
        THEN ChoicesBranch(data)
        ELSE KnownFormats(data)

RECURSIVE FirstStringField(_, _)
\* for (const key of keys) { if (o[key] && typeof o[key] === 'string') return o[key] }
FirstStringField(o, keys) ==
  IF keys = <<>> THEN NoMatch
  ELSE LET v == Get(o, Head(keys))
       IN  IF Truthy(v) /\ IsString(v) THEN Return(v)
           ELSE FirstStringField(o, Tail(keys))

RawFormatMarker == "AI response (raw format): "

\* lines 1313-1326: the last resort
LastResort(data) ==
  IF NumKeys(data) > 0 /\ Len(JSONstringify(data)) > 2
    THEN LET textContent == extractTextContent(data, 0)
         IN  IF Truthy(textContent) THEN Return(textContent)
             ELSE Return(Str(RawFormatMarker \o JSONstringify(data)))
    ELSE NoMatch

\* lines 1296-1327
ObjectScan(data) ==
  IF Truthy(data) /\ IsObject(data)
    THEN LET top == FirstStringField(data,
                      <<"content", "text", "result", "answer", "generated_text">>)
             message == Get(data, "message")
             inMessage == IF Truthy(message) /\ IsObject(message)
                            THEN FirstStringField(message, <<"content", "text", "value">>)
                            ELSE NoMatch
         IN  IF top.kind = "return" THEN top
             ELSE IF inMessage.kind = "return" THEN inMessage
             ELSE LastResort(data)
    ELSE NoMatch

\* the body of the inner try, lines 1277-1330
ParseResponse(data) ==
  IF IsNullish(data) THEN TypeError
  ELSE LET known == RecognizedFormat(data)
       IN  IF known.kind # "none" THEN known
           ELSE LET scanned == ObjectScan(data)
                IN  IF scanned.kind # "none" THEN scanned
                    ELSE Throw("Unexpected response format from local LLM")

ParseErrorFallback ==
  "I encountered an error processing the response. Please try again or check the server logs."

\* lines 1276-1335: the inner try with its catch, which returns the fallback
\* text for whatever the try block throws
HandleLocalResponse(data) ==
  LET parsed == ParseResponse(data)
  IN  IF parsed.kind = "throw" THEN Return(Str(ParseErrorFallback)) ELSE parsed

(***************************************************************************)
(* The response handling of makeSebGuruRequest (1373-1377)                 *)
(***************************************************************************)
\* return response.data.choices[0].message.content, inside the try whose
\* catch rethrows; the variant hands the body to the response handling of
\* makeLocalRequest
HandleRemoteResponseAsLocal(data) == HandleLocalResponse(data)
HandleRemoteResponse(data) ==
  IF IsNullish(data) THEN TypeError
  ELSE LET choices == Get(data, "choices")
       IN  IF IsNullish(choices) THEN TypeError
           ELSE LET c0 == Index0(choices)
                IN  IF IsNullish(c0) THEN TypeError
                    ELSE IF IsNullish(Get(c0, "message")) THEN TypeError
                    ELSE Return(Get(Get(c0, "message"), "content"))

(***************************************************************************)
(* Strings of which the code reads the first or the last character (the    *)
(* configured URL and path) are sequences of tokens: a token is "/" or a   *)
(* run of characters that neither starts nor ends with "/".                *)
(***************************************************************************)
RECURSIVE Concat(_)
Concat(tokens) ==
  IF tokens = <<>> THEN "" ELSE Head(tokens) \o Concat(Tail(tokens))

endsWithSlash(tokens) == tokens # <<>> /\ tokens[Len(tokens)] = "/"
startsWithSlash(tokens) == tokens # <<>> /\ Head(tokens) = "/"

GeneratePath == <<"/", "api/generate">>
ChatPath == <<"/", "api/chat">>

(***************************************************************************)
(* LLMClient (src/extension.js 1106-1392)                                  *)
(***************************************************************************)
DefaultSystemPrompt == "You are a helpful AI coding assistant."
\* 0.7, in tenths
DefaultTemperature == 7

\* a || b
OrElse(a, b) == IF Truthy(a) THEN a ELSE b

BaseUrlOf(hostname, version) == "https://" \o hostname \o "/" \o version

\* constructor(config)
NewClient(config) ==
  LET hostname == IF config.apiHostname # "" THEN config.apiHostname ELSE "localhost:3000"
      version == IF config.apiVersion # "" THEN config.apiVersion ELSE "v1"
  IN  [useLocalLLM |-> config.useLocalLLM,
       localLLMUrl |-> config.localLLMUrl,
       localLLMPath |-> config.localLLMPath,
       apiHostname |-> hostname,
       apiVersion |-> version,
       apiKey |-> config.apiKey,
       model |-> config.model,
       maxTokens |-> config.maxTokens,
       baseUrl |-> BaseUrlOf(hostname, version)]

\* updateConfig(config)
updateConfig(c, config) ==
  LET c1 == [c EXCEPT !.useLocalLLM = config.useLocalLLM,
                      !.localLLMUrl = config.localLLMUrl,
                      !.localLLMPath = config.localLLMPath]
      c2 == IF config.apiHostname # ""
              THEN [c1 EXCEPT !.apiHostname = config.apiHostname,
                              !.baseUrl = BaseUrlOf(config.apiHostname, c1.apiVersion)]
              ELSE c1
      c3 == IF config.apiVersion # ""
              THEN [c2 EXCEPT !.apiVersion = config.apiVersion,
                              !.baseUrl = BaseUrlOf(c2.apiHostname, config.apiVersion)]
              ELSE c2
  IN  [c3 EXCEPT !.apiKey = config.apiKey,
                 !.model = config.model,
                 !.maxTokens = config.maxTokens]

\* the messages array of the chat shapes
Messages(prompt, options) ==
  Arr(<<Obj(<<Field("role", Str("system")),
              Field("content", OrElse(options.systemPrompt, Str(DefaultSystemPrompt)))>>),
        Obj(<<Field("role", Str("user")), Field("content", Str(prompt))>>)>>)

\* lines 1194-1210: the Ollama /api/generate payload
GeneratePayload(c, prompt, options) ==
  LET given == Truthy(options.temperature) \/ Truthy(options.maxTokens)
      tokens == OrElse(options.maxTokens, Num(c.maxTokens))
  IN  Obj(<<Field("model", Str(c.model)),
            Field("prompt", Str(prompt)),
            Field("system", OrElse(options.systemPrompt, Str(DefaultSystemPrompt))),
            Field("stream", Bool(FALSE))>>
          \o (IF given /\ Truthy(tokens) THEN <<Field("num_predict", tokens)>> ELSE <<>>)
          \o (IF given /\ Truthy(options.temperature)
                THEN <<Field("temperature", options.temperature)>> ELSE <<>>))

\* lines 1213-1233: the Ollama /api/chat payload
ChatPayload(c, prompt, options) ==
  LET given == Truthy(options.temperature) \/ Truthy(options.maxTokens)
      tokens == OrElse(options.maxTokens, Num(c.maxTokens))
  IN  Obj(<<Field("model", Str(c.model)),
            Field("messages", Messages(prompt, options)),
            Field("stream", Bool(FALSE))>>
          \o (IF given
                THEN <<Field("options",
                         Obj((IF Truthy(tokens) THEN <<Field("num_predict", tokens)>> ELSE <<>>)
                             \o (IF Truthy(options.temperature)
                                   THEN <<Field("temperature", options.temperature)>>
                                   ELSE <<>>)))>>
                ELSE <<>>))

\* lines 1236-1244 and 1356-1364: the OpenAI-compatible payload
CompletionsPayload(c, prompt, options) ==
  Obj(<<Field("model", Str(c.model)),
        Field("messages", Messages(prompt, options)),
        Field("max_tokens", OrElse(options.maxTokens, Num(c.maxTokens))),
        Field("temperature", OrElse(options.temperature, Num(DefaultTemperature)))>>)

\* lines 1185-1187
LocalUrl(c) ==
  LET baseUrl == IF endsWithSlash(c.localLLMUrl)
                   THEN SubSeq(c.localLLMUrl, 1, Len(c.localLLMUrl) - 1)
                   ELSE c.localLLMUrl
      path == IF startsWithSlash(c.localLLMPath) THEN c.localLLMPath
              ELSE <<"/">> \o c.localLLMPath
  IN  Concat(baseUrl) \o Concat(path)

\* lines 1190-1245: the payload is chosen by this.localLLMPath; the variant
\* chooses it by the path of the URL (line 1186)
LocalPayloadByUrlPath(c, prompt, options) ==
  LET path == IF startsWithSlash(c.localLLMPath) THEN c.localLLMPath
              ELSE <<"/">> \o c.localLLMPath
  IN  IF path = GeneratePath THEN GeneratePayload(c, prompt, options)
      ELSE IF path = ChatPath THEN ChatPayload(c, prompt, options)
      ELSE CompletionsPayload(c, prompt, options)
LocalPayload(c, prompt, options) ==
  IF c.localLLMPath = GeneratePath THEN GeneratePayload(c, prompt, options)
  ELSE IF c.localLLMPath = ChatPath THEN ChatPayload(c, prompt, options)
  ELSE CompletionsPayload(c, prompt, options)

NoHeader == ""
ApiKeyNotSet ==
  "SebGuru API key not set. Please set your API key in the extension settings or switch to using a local LLM."

\* if (!this.apiKey)
ApiKeyMissing(c) == c.apiKey = ""

NoOptions == [systemPrompt |-> Undef, maxTokens |-> Undef, temperature |-> Undef]

NoCall ==
  [status |-> "none", mode |-> "none", prompt |-> "", options |-> NoOptions,
   server |-> <<>>, path |-> <<>>, posted |-> FALSE, url |-> "", body |-> Undef,
   authorization |-> NoHeader, answered |-> FALSE, payload |-> Undef,
   outcome |-> NoMatch]

\* makeLocalRequest up to its await of axios.post (1183-1258); the variant
\* sends the API key along when there is one
IssueLocalWithKey(c, prompt, options) ==
  [NoCall EXCEPT !.status = "awaiting", !.mode = "local", !.prompt = prompt,
                 !.options = options, !.server = c.localLLMUrl,
                 !.path = c.localLLMPath, !.posted = TRUE,
                 !.url = LocalUrl(c), !.body = LocalPayload(c, prompt, options),
                 !.authorization = IF c.apiKey = "" THEN NoHeader
                                   ELSE "Bearer " \o c.apiKey]
IssueLocal(c, prompt, options) ==
  [NoCall EXCEPT !.status = "awaiting", !.mode = "local", !.prompt = prompt,
                 !.options = options, !.server = c.localLLMUrl,
                 !.path = c.localLLMPath, !.posted = TRUE,
                 !.url = LocalUrl(c), !.body = LocalPayload(c, prompt, options)]

\* makeSebGuruRequest up to its await of axios.post (1349-1371); the variant
\* looks at the API key only after the POST is out
IssueRemotePostFirst(c, prompt, options) ==
  [NoCall EXCEPT !.status = IF ApiKeyMissing(c) THEN "rejected" ELSE "awaiting",
                 !.mode = "remote", !.prompt = prompt, !.options = options,
                 !.posted = TRUE, !.url = c.baseUrl \o "/chat/completions",
                 !.body = CompletionsPayload(c, prompt, options),
                 !.authorization = "Bearer " \o c.apiKey,
                 !.outcome = IF ApiKeyMissing(c) THEN Throw(ApiKeyNotSet) ELSE NoMatch]
IssueRemote(c, prompt, options) ==
  IF ApiKeyMissing(c)
    THEN [NoCall EXCEPT !.status = "rejected", !.mode = "remote", !.prompt = prompt,
                        !.options = options, !.outcome = Throw(ApiKeyNotSet)]
    ELSE [NoCall EXCEPT !.status = "awaiting", !.mode = "remote", !.prompt = prompt,
                        !.options = options, !.posted = TRUE,
                        !.url = c.baseUrl \o "/chat/completions",
                        !.body = CompletionsPayload(c, prompt, options),
                        !.authorization = "Bearer " \o c.apiKey]

\* makeRequest (1168-1174)
IssueRequest(c, prompt, options) ==
  IF c.useLocalLLM THEN IssueLocal(c, prompt, options)
  ELSE IssueRemote(c, prompt, options)

\* what the promise of the call settles to, given what the response handling yields
Settle(cl, data, handled, failure) ==
  IF handled.kind = "throw"
    THEN [cl EXCEPT !.status = "rejected", !.answered = TRUE, !.payload = data,
                    !.outcome = Throw(failure)]
    ELSE [cl EXCEPT !.status = "resolved", !.answered = TRUE, !.payload = data,
                    !.outcome = handled]

\* the error the outer catch of makeLocalRequest throws (1336-1339); it
\* reads this.localLLMUrl when it runs, c being the client at that moment
LocalFailure(c, cause) ==
  "Failed to get response from local LLM: " \o cause
    \o ". Make sure your local LLM server is running at " \o Concat(c.localLLMUrl)

\* the error the catch of makeSebGuruRequest throws (1374-1377)
RemoteFailure(cause) == "Failed to get response from SebGuru: " \o cause

\* error.message of a rejected axios.post
HttpError == "connect ECONNREFUSED"

(***************************************************************************)
(* Inputs                                                                  *)
(***************************************************************************)
\* the deepest nesting of the payloads built by Chain
MaxChain == 7

Strs == {"", "X", "Y"}
Leaves == {Str(s) : s \in Strs} \cup {Num(123), Num(0), Null}

MessageVals ==
  {Obj(<<Field("content", l)>>) : l \in Leaves}
    \cup {Obj(<<Field("text", Str("X"))>>), Obj(<<Field("value", Str("X"))>>),
          Obj(<<>>), Str("X")}

ChoiceItems ==
  {Obj(<<Field("message", m)>>) : m \in MessageVals \cup {Null}}
    \cup {Obj(<<Field("text", l)>>) : l \in Leaves}
    \cup {Obj(<<Field("message", m), Field("text", Str("Y"))>>) :
            m \in {Obj(<<Field("content", Str("X"))>>), Obj(<<>>), Null, Str("X")}}
    \cup {Obj(<<>>), Null, Str("X")}

ChoicesVals ==
  {Arr(<<c>>) : c \in ChoiceItems} \cup {Arr(<<>>), Null, Str("X"), Num(123)}

TopKeys ==
  {"choices", "message", "response", "output", "content", "text", "result",
   "weird", "foo"}

ValuesOf(key) ==
  CASE key = "choices" -> ChoicesVals
    [] key = "message" -> MessageVals \cup Leaves
    [] OTHER -> Leaves \cup {Obj(<<Field("bar", Str("X"))>>), Arr(<<Str("X")>>)}

RECURSIVE Chain(_, _, _)
\* leaf nested depth levels below the value built: in objects, or in arrays
Chain(depth, leaf, inArrays) ==
  IF depth = 0 THEN leaf
  ELSE IF inArrays THEN Arr(<<Chain(depth - 1, leaf, inArrays)>>)
  ELSE Obj(<<Field(IF depth % 2 = 0 THEN "foo" ELSE "bar",
                   Chain(depth - 1, leaf, inArrays))>>)

BarePayloads ==
  Leaves \cup {Undef, Obj(<<>>), Arr(<<>>), Arr(<<Null>>), Arr(<<Str("X")>>)}
OneFieldPayloads ==
  UNION {{Obj(<<Field(k, v)>>) : v \in ValuesOf(k)} : k \in TopKeys}
ChainPayloads ==
  {Obj(<<Field("foo", Chain(d - 1, leaf, a))>>) :
     d \in 1..MaxChain, leaf \in Leaves, a \in BOOLEAN}
    \cup {Obj(<<Field("weird", Num(123)), Field("foo", Chain(d - 1, leaf, a))>>) :
            d \in 1..MaxChain, leaf \in Leaves, a \in BOOLEAN}

\* a choices array next to a known format field and a field the scans look for
ThreeFieldPayloads ==
  {Obj(<<Field("choices", Arr(<<c>>)), Field(k2, v2), Field(k3, Str("Y"))>>) :
     c \in {Obj(<<>>), Obj(<<Field("weird", Num(123))>>),
            Obj(<<Field("text", Str("X"))>>)},
     k2 \in {"response", "output"}, v2 \in {Str("X"), Num(123)},
     k3 \in {"content", "text", "result", "foo"}}
    \cup {Obj(<<Field("choices", Arr(<<Obj(<<>>)>>)),
                Field("message", Obj(<<Field("content", Str("X"))>>)),
                Field(k3, Str("Y"))>>) : k3 \in {"content", "text", "result", "foo"}}

\* the payloads of at most one field, the nested ones and those of three fields
SimplePayloads ==
  BarePayloads \cup OneFieldPayloads \cup ChainPayloads \cup ThreeFieldPayloads

\* the payloads the client specification answers with
FewPayloads ==
  {Null, Str("X"),
   Obj(<<Field("choices", Arr(<<Obj(<<Field("message", Obj(<<Field("content", Str("X"))>>))>>)>>))>>),
   Obj(<<Field("weird", Num(123))>>)}

\* the settings contributed by the extension (src/extension.js 3970-4005)
DefaultConfig ==
  [useLocalLLM |-> TRUE, localLLMUrl |-> <<"http://127.0.0.1:11434">>,
   localLLMPath |-> ChatPath, apiHostname |-> "localhost:3000", apiVersion |-> "v1",
   apiKey |-> "", model |-> "deepseek-coder", maxTokens |-> 2048]

Urls ==
  {<<"http://127.0.0.1:11434">>, <<"http://127.0.0.1:11434", "/">>,
   <<"http://127.0.0.1:11434", "/", "/">>}
Paths ==
  {GeneratePath, ChatPath, <<"api/chat">>, <<"/", "v1/chat/completions">>,
   <<"/", "/", "api/chat">>}
Configs ==
  {[DefaultConfig EXCEPT !.localLLMUrl = url, !.localLLMPath = path] :
     url \in Urls, path \in Paths}
    \cup {[DefaultConfig EXCEPT !.useLocalLLM = FALSE, !.apiKey = key,
                                !.apiHostname = h, !.apiVersion = v] :
            key \in {"", "sk-1"}, h \in {"", "api.sebguru.ai"}, v \in {"", "v2"}}
Prompts == {"explain this"}
OptionSets ==
  [systemPrompt : {Undef}, maxTokens : {Undef, Num(4096)},
   temperature : {Undef, Num(0), Num(2)}]

(***************************************************************************)
(* Actions                                                                 *)
(***************************************************************************)
\* the configuration-change listener (3519-3552)
UpdateConfig(config) ==
  /\ client' = updateConfig(client, config)
  /\ UNCHANGED <<call, uiVars>>

\* setApiKey (1150-1152)
SetApiKey(apiKey) ==
  /\ client' = [client EXCEPT !.apiKey = apiKey]
  /\ UNCHANGED <<call, uiVars>>

\* setModel (1158-1160)
SetModel(model) ==
  /\ client' = [client EXCEPT !.model = model]
  /\ UNCHANGED <<call, uiVars>>

\* a command calls makeRequest; the call runs to its await, or to its throw
MakeRequest(prompt, options) ==
  /\ call.status # "awaiting"
  /\ call' = IssueRequest(client, prompt, options)
  /\ UNCHANGED <<client, uiVars>>

\* axios.post of makeLocalRequest resolves with response.data = data
LocalResponse(data) ==
  /\ call.status = "awaiting" /\ call.mode = "local"
  /\ call' = Settle(call, data, HandleLocalResponse(data),
                   LocalFailure(client, HandleLocalResponse(data).value.s))
  /\ UNCHANGED <<client, uiVars>>

\* axios.post of makeSebGuruRequest resolves with response.data = data
RemoteResponse(data) ==
  /\ call.status = "awaiting" /\ call.mode = "remote"
  /\ call' = Settle(call, data, HandleRemoteResponse(data),
                   RemoteFailure(HandleRemoteResponse(data).value.s))
  /\ UNCHANGED <<client, uiVars>>

\* axios.post rejects (no connection, timeout, error status): the outer catch
\* of makeLocalRequest (1336-1339), the catch of makeSebGuruRequest (1374-1377)
HttpFailure ==
  /\ call.status = "awaiting"
  /\ call' = [call EXCEPT !.status = "rejected",
                          !.outcome = Throw(IF call.mode = "local"
                                              THEN LocalFailure(client, HttpError)
                                            ELSE RemoteFailure(HttpError))]
  /\ UNCHANGED <<client, uiVars>>

\* the workspace before any file operation of the extension: no directory
\* or file written, no terminal, no editor opened, no message shown
NoOperation ==
  [op |-> "none", dirs |-> {}, files |-> {}, terminals |-> <<>>,
   editors |-> <<>>, messages |-> <<>>, returned |-> "none"]

\* activate (2080-2104): no chat turn, no handler running, nothing shown
\* the webview before a message is rendered
NoWebview == [content |-> <<>>, html |-> <<>>]

NoUserAction ==
  /\ chatHistory = [session \in {"sidebar", "panel"} |-> <<>>]
  /\ handlers = <<>>
  /\ shown = <<>>
  /\ loading = [session \in {"sidebar", "panel"} |-> FALSE]
  /\ bench = NoOperation
  /\ webview = NoWebview

Init ==
  /\ client \in {NewClient(config) : config \in Configs}
  /\ call = NoCall
  /\ NoUserAction

Next ==
  \/ \E config \in Configs : UpdateConfig(config)
  \/ \E apiKey \in {"", "sk-1"} : SetApiKey(apiKey)
  \/ \E model \in {"sebguru-fast"} : SetModel(model)
  \/ \E prompt \in Prompts, options \in OptionSets : MakeRequest(prompt, options)
  \/ \E data \in FewPayloads : LocalResponse(data)
  \/ \E data \in FewPayloads : RemoteResponse(data)
  \/ HttpFailure

Spec == Init /\ [][Next]_vars

(***************************************************************************)
(* The response handling on its own: a request is in flight under the      *)
(* default settings (local) or with an API key (remote), and the server    *)
(* answers it with any payload.                                            *)
(***************************************************************************)
InitNorm ==
  /\ client \in {NewClient(DefaultConfig),
                 NewClient([DefaultConfig EXCEPT !.useLocalLLM = FALSE, !.apiKey = "sk-1"])}
  /\ call = IssueRequest(client, "explain this", NoOptions)
  /\ NoUserAction

Respond(data) == LocalResponse(data) \/ RemoteResponse(data)

NextNorm ==
  \/ /\ call.status = "awaiting"
     /\ \E data \in SimplePayloads : Respond(data)
  \/ /\ call.status = "awaiting"
     /\ \E k1 \in TopKeys : \E k2 \in TopKeys \ {k1} :
          \E v1 \in ValuesOf(k1), v2 \in ValuesOf(k2) :
            Respond(Obj(<<Field(k1, v1), Field(k2, v2)>>))

SpecNorm == InitNorm /\ [][NextNorm]_vars

(***************************************************************************)
(* The user's actions: the commands that ask the model (2554-2826,         *)
(* 3443-3513) and the two chats (1397-1488, 2397-2468).  Every action runs *)
(* in a handler of its own; handlers[id] is the handler of the id-th       *)
(* action of the user.                                                     *)
(***************************************************************************)
\* the number of actions of the user that are followed
MaxActions == 2

\* the five commands that call withProgress without awaiting it, and
\* createFile, which awaits it (2792)
Commands ==
  {"askAI", "explainCode", "improveCode", "generateCode", "runWorkflow", "createFile"}

\* `await vscode.window.withProgress(...)` against `vscode.window.withProgress(...)`
AwaitsProgress(name) == name = "createFile"

\* the text in front of error.message in the catch block of the command
ErrorPrefix(name) ==
  CASE name = "runWorkflow" -> "Error running workflow: "
    [] name = "createFile" -> "Error generating file content: "
    [] OTHER -> "AI Assistant error: "

\* the file the editor shows, for the commands that work on a selection
FileName == "main.py"

\* makeRequestWithFileContext (1388-1391)
FileContextPrompt(prompt, fileContent, fileName) ==
  "File: " \o fileName \o "\n\n" \o fileContent \o "\n\nUser request: " \o prompt

\* the prompt the command sends for the text the user entered or selected
CommandPrompt(name, input) ==
  CASE name = "askAI" -> input
    [] name = "explainCode" ->
         FileContextPrompt("Explain this code in detail:", input, FileName)
    [] name = "improveCode" -> FileContextPrompt("Improve this code:", input, FileName)
    [] name = "generateCode" -> "Generate the following code: " \o input
    [] name = "runWorkflow" ->
         FileContextPrompt("Apply the \"Explain Code\" workflow to this code:", input, FileName)
    [] OTHER -> "Generate a py file with the following description: " \o input

\* the options the command passes; 0.2 is 2 tenths
CommandOptions(name) ==
  CASE name = "askAI" -> NoOptions
    [] name = "runWorkflow" ->
         [systemPrompt |-> Str("You are an expert programmer."),
          maxTokens |-> Num(4096), temperature |-> Undef]
    [] name = "createFile" ->
         [systemPrompt |-> Str("You are an expert programmer."),
          maxTokens |-> Undef, temperature |-> Num(2)]
    [] OTHER ->
         [systemPrompt |-> Str("You are an expert programmer."),
          maxTokens |-> Undef, temperature |-> Undef]

\* a handler that has just called makeRequest, or has returned early
\* without calling it (req = NoCall)
Handler(kind, name, req, timer) ==
  [kind |-> kind, name |-> name, req |-> req, timer |-> timer,
   posts |-> IF req.posted THEN 1 ELSE 0,
   state |-> IF req.status = "none" THEN "done" ELSE "awaiting",
   end |-> IF req.status = "none" THEN "noInput" ELSE "none"]

\* the way the task given to withProgress ends once makeRequest has
\* settled: "" when it is fulfilled, the message of the error otherwise;
\* createFile calls content.replace on what makeRequest returned (2812)
TaskRejection(h) ==
  IF h.req.status = "rejected" THEN h.req.outcome.value.s
  ELSE IF h.name = "createFile" /\ h.req.outcome.value.t # "str" THEN "TypeError"
  ELSE ""

\* the end of a command whose request has settled.  The rejection of the
\* task rejects the promise withProgress returned; the catch block of the
\* command sees it only where that promise is awaited.
FinishCommand(h, id, messages) ==
  LET rejection == TaskRejection(h)
  IN  IF rejection = ""
        THEN [handler |-> [h EXCEPT !.state = "done", !.end = "answer"],
              shown |-> messages]
      ELSE IF AwaitsProgress(h.name)
        THEN [handler |-> [h EXCEPT !.state = "done", !.end = "error"],
              shown |-> Append(messages, [by |-> id, text |-> ErrorPrefix(h.name) \o rejection])]
      ELSE [handler |-> [h EXCEPT !.state = "done", !.end = "unhandled"],
            shown |-> messages]

\* makeRequest of the sendMessage handler id threw before it sent anything
\* (no API key): the handler goes on in its catch block as soon as the
\* running code returns, before any other event is handled
RejectedAtOnce(id) ==
  handlers[id].state = "awaiting" /\ handlers[id].req.status = "rejected"

\* no handler is about to go on: the next event is handled
Idle == \A id \in 1..Len(handlers) : ~RejectedAtOnce(id)

\* the user runs a command; input is the text entered or selected, and with
\* no text the command returns before it asks anything
InvokeCommand(name, input) ==
  /\ Idle
  /\ Len(handlers) < MaxActions
  /\ LET id == Len(handlers) + 1
         req == IF input = "" THEN NoCall
                ELSE IssueRequest(client, CommandPrompt(name, input), CommandOptions(name))
         h == Handler("command", name, req, "none")
         finished == IF req.status = "rejected" THEN FinishCommand(h, id, shown)
                     ELSE [handler |-> h, shown |-> shown]
     IN  /\ handlers' = Append(handlers, finished.handler)
         /\ shown' = finished.shown
  /\ UNCHANGED <<client, call, chatHistory, loading, bench, webview>>

\* the system prompt of both chats (1441-1451, 2421-2431), its first sentences
ChatSystemPrompt ==
  "You are SebGuru, an AI coding assistant. Help the user with their coding tasks and questions."

ChatOptions ==
  [systemPrompt |-> Str(ChatSystemPrompt), maxTokens |-> Undef, temperature |-> Undef]

TimedOut == "Request timed out after 60 seconds"
InvalidResponse == "Received empty or invalid response from LLM"

\* one entry of a chat history; content is what the code pushed
Turn(role, content) == [role |-> role, content |-> content]

\* the turn the catch block pushes (1476-1479, 2457-2460)
ErrorTurn(message) ==
  Turn("assistant",
       Str("I'm sorry, I encountered an error: " \o message
             \o ". Please try again or check the server logs."))

\* response.trim() === '' for the strings of the model
IsBlank(v) == v.s \in {"", " "}

\* what the handler does with the value the race is fulfilled with: "" when
\* it pushes it, the message of the error it throws otherwise.  Both chats
\* evaluate response.substring for a truthy response (1457, 2434), which a
\* value that is not a string does not have; the panel then refuses what is
\* empty or not a string (2437-2439).
Refusal(session, response) ==
  IF Truthy(response) /\ ~IsString(response) THEN "TypeError"
  ELSE IF session = "panel" /\ (~Truthy(response) \/ IsBlank(response))
    THEN InvalidResponse
  ELSE ""

\* the end of a sendMessage handler once its race has settled with raced
\* (1453-1481, 2433-2462)
FinishChat(h, id, raced, history, messages) ==
  LET failure == IF raced.kind = "throw" THEN raced.value.s
                 ELSE Refusal(h.name, raced.value)
  IN  IF failure = ""
        THEN [handler |-> [h EXCEPT !.state = "done", !.end = "answer"],
              history |-> Append(history, Turn("assistant", raced.value)),
              shown |-> messages]
        ELSE [handler |-> [h EXCEPT !.state = "done", !.end = "error"],
              history |-> Append(history, ErrorTurn(failure)),
              shown |-> Append(messages,
                               [by |-> id, text |-> "AI Assistant error: " \o failure])]

\* the webview posts sendMessage (1419-1453, 2398-2433): the handler pushes
\* the user's turn, starts the 60 s timer, calls makeRequest and waits for
\* the race of the two
SendMessage(session, message) ==
  /\ Idle
  /\ Len(handlers) < MaxActions
  /\ handlers' = Append(handlers,
                        Handler("sendMessage", session,
                                IssueRequest(client, message, ChatOptions), "pending"))
  /\ chatHistory' = [chatHistory EXCEPT
                       ![session] = Append(@, Turn("user", Str(message)))]
  /\ loading' = [loading EXCEPT ![session] = TRUE]
  /\ UNCHANGED <<client, call, shown, bench, webview>>

\* the view receives clearChat (1482-1487); the panel has no such branch
ClearChat ==
  /\ Idle
  /\ chatHistory["sidebar"] # <<>>
  /\ chatHistory' = [chatHistory EXCEPT !["sidebar"] = <<>>]
  /\ UNCHANGED <<client, call, handlers, shown, loading, bench, webview>>

\* the handler id goes on with its request settled as req; a chat handler
\* that the timer has already ended is not waiting for it any more (the
\* variant lets it take the late response all the same)
ResumeAfterTimeout(id, req) ==
  LET h == [handlers[id] EXCEPT !.req = req]
  IN  IF h.kind = "command"
        THEN LET finished == FinishCommand(h, id, shown)
             IN  /\ handlers' = [handlers EXCEPT ![id] = finished.handler]
                 /\ shown' = finished.shown
                 /\ UNCHANGED <<chatHistory, loading>>
      ELSE LET finished == FinishChat(h, id, req.outcome, chatHistory[h.name], shown)
           IN  /\ handlers' = [handlers EXCEPT ![id] = finished.handler]
               /\ chatHistory' = [chatHistory EXCEPT ![h.name] = finished.history]
               /\ shown' = finished.shown
               /\ loading' = [loading EXCEPT ![h.name] = FALSE]
Resume(id, req) ==
  LET h == [handlers[id] EXCEPT !.req = req]
  IN  IF h.state # "awaiting"
        THEN /\ handlers' = [handlers EXCEPT ![id] = h]
             /\ UNCHANGED <<chatHistory, shown, loading>>
      ELSE IF h.kind = "command"
        THEN LET finished == FinishCommand(h, id, shown)
             IN  /\ handlers' = [handlers EXCEPT ![id] = finished.handler]
                 /\ shown' = finished.shown
                 /\ UNCHANGED <<chatHistory, loading>>
      ELSE LET finished == FinishChat(h, id, req.outcome, chatHistory[h.name], shown)
           IN  /\ handlers' = [handlers EXCEPT ![id] = finished.handler]
               /\ chatHistory' = [chatHistory EXCEPT ![h.name] = finished.history]
               /\ shown' = finished.shown
               /\ loading' = [loading EXCEPT ![h.name] = FALSE]

\* the race of handler id is rejected by its makeRequest that threw at once
CatchAtOnce(id) ==
  /\ RejectedAtOnce(id)
  /\ Resume(id, handlers[id].req)
  /\ UNCHANGED <<client, call, bench, webview>>

\* the server answers the request of handler id with response.data = data
ResponseArrives(id, data) ==
  /\ Idle
  /\ handlers[id].req.status = "awaiting"
  /\ LET req == handlers[id].req
     IN  Resume(id, IF req.mode = "local"
                      THEN Settle(req, data, HandleLocalResponse(data),
                                  LocalFailure(client, HandleLocalResponse(data).value.s))
                      ELSE Settle(req, data, HandleRemoteResponse(data),
                                  RemoteFailure(HandleRemoteResponse(data).value.s)))
  /\ UNCHANGED <<client, call, bench, webview>>

\* axios.post of handler id rejects
RequestFails(id) ==
  /\ Idle
  /\ handlers[id].req.status = "awaiting"
  /\ LET req == handlers[id].req
     IN  Resume(id, [req EXCEPT !.status = "rejected",
                                !.outcome = Throw(IF req.mode = "local"
                                                    THEN LocalFailure(client, HttpError)
                                                  ELSE RemoteFailure(HttpError))])
  /\ UNCHANGED <<client, call, bench, webview>>

\* a timer whose rejection nobody races against: the handler goes on
\* waiting for its request (variant)
TimerFiresUnraced(id) ==
  /\ Idle
  /\ handlers[id].timer = "pending"
  /\ \A earlier \in 1..(id - 1) : handlers[earlier].timer # "pending"
  /\ handlers' = [handlers EXCEPT ![id].timer = "fired"]
  /\ UNCHANGED <<client, call, chatHistory, shown, loading, bench, webview>>

\* the 60 s timer of handler id fires (1434-1436, 2411-2413); the timers
\* fire in the order they were set.  The request is not aborted.
TimerFires(id) ==
  /\ Idle
  /\ handlers[id].timer = "pending"
  /\ \A earlier \in 1..(id - 1) : handlers[earlier].timer # "pending"
  /\ LET h == [handlers[id] EXCEPT !.timer = "fired"]
     IN  IF h.state # "awaiting"
           THEN /\ handlers' = [handlers EXCEPT ![id] = h]
                /\ UNCHANGED <<chatHistory, shown, loading>>
           ELSE LET finished == FinishChat(h, id, Throw(TimedOut), chatHistory[h.name], shown)
                IN  /\ handlers' = [handlers EXCEPT ![id] = finished.handler]
                    /\ chatHistory' = [chatHistory EXCEPT ![h.name] = finished.history]
                    /\ shown' = finished.shown
                    /\ loading' = [loading EXCEPT ![h.name] = FALSE]
  /\ UNCHANGED <<client, call, bench, webview>>

\* what the user enters or selects, and what the server answers
Inputs == {"", "explain this"}
ChatMessages == {"hello", "thanks"}
UiPayloads ==
  {Str("X"), Str(" "), Obj(<<Field("response", Num(123))>>),
   Obj(<<Field("choices", Arr(<<Obj(<<Field("message", Obj(<<>>))>>)>>))>>)}

InitUI ==
  /\ client \in {NewClient(DefaultConfig),
                 NewClient([DefaultConfig EXCEPT !.useLocalLLM = FALSE, !.apiKey = "sk-1"]),
                 NewClient([DefaultConfig EXCEPT !.useLocalLLM = FALSE])}
  /\ call = NoCall
  /\ NoUserAction

NextUI ==
  \/ \E name \in Commands, input \in Inputs : InvokeCommand(name, input)
  \/ \E session \in {"sidebar", "panel"}, message \in ChatMessages :
       SendMessage(session, message)
  \/ ClearChat
  \/ \E id \in 1..Len(handlers) : \E data \in UiPayloads : ResponseArrives(id, data)
  \/ \E id \in 1..Len(handlers) : RequestFails(id)
  \/ \E id \in 1..Len(handlers) : TimerFires(id)
  \/ \E id \in 1..Len(handlers) : CatchAtOnce(id)

SpecUI == InitUI /\ [][NextUI]_vars

\* the event loop runs the callback of a timer that is due and the
\* continuation of a promise that is settled; a server need not answer
EventLoop ==
  \A id \in 1..MaxActions :
    /\ WF_vars(id <= Len(handlers) /\ TimerFires(id))
    /\ WF_vars(id <= Len(handlers) /\ CatchAtOnce(id))
SpecUIFair == SpecUI /\ EventLoop

(***************************************************************************)
(* The file operations (3575-3650, 3724-3843) and the commands that use    *)
(* them.  A path is the sequence of its names; failing is the set of paths *)
(* the file system refuses to create or write.  bench is what the          *)
(* operation left behind: directories, files, terminals with the text      *)
(* sent to them, editors opened, messages shown, and the value returned.   *)
(***************************************************************************)
\* error.message of a rejected vscode.workspace.fs call
FsError == "EACCES: permission denied"

\* filePath.substring(0, filePath.lastIndexOf('/'))
DirName(path) == SubSeq(path, 1, Len(path) - 1)

RECURSIVE PathString(_)
PathString(path) ==
  IF path = <<>> THEN "" ELSE "/" \o Head(path) \o PathString(Tail(path))

ShowMessage(b, text) == [b EXCEPT !.messages = Append(@, text)]

\* createDirectory (3603-3613)
createDirectory(b, dirPath, failing) ==
  IF dirPath \in failing
    THEN [bench |-> ShowMessage(b, "Failed to create directory: " \o FsError),
          returned |-> FALSE]
    ELSE [bench |-> [b EXCEPT !.dirs = @ \cup {dirPath}], returned |-> TRUE]

\* createFile (3575-3596)
createFile(b, filePath, content, failing) ==
  IF DirName(filePath) \in failing
    THEN [bench |-> ShowMessage(b, "Failed to create file: " \o FsError),
          returned |-> FALSE]
  ELSE IF filePath \in failing
    THEN [bench |-> ShowMessage([b EXCEPT !.dirs = @ \cup {DirName(filePath)}],
                                "Failed to create file: " \o FsError),
          returned |-> FALSE]
  ELSE [bench |-> [b EXCEPT !.dirs = @ \cup {DirName(filePath)},
                            !.files = @ \cup {[path |-> filePath, content |-> content]},
                            !.editors = Append(@, PathString(filePath))],
        returned |-> TRUE]

RECURSIVE createStructure(_, _, _, _)
RECURSIVE CreateItems(_, _, _, _)
\* createStructure (3621-3650): nothing in its try block throws, since
\* createDirectory and createFile catch their errors and return false
createStructure(b, structure, basePath, failing) ==
  [bench |-> CreateItems(createDirectory(b, basePath, failing).bench,
                         structure, basePath, failing),
   returned |-> TRUE]
\* for (const item of structure) { ... } (3627-3642)
CreateItems(b, items, basePath, failing) ==
  IF items = <<>> THEN b
  ELSE LET item == Head(items)
           itemPath == Append(basePath, item.name)
           made == IF item.type = "directory"
                     THEN LET dir == createDirectory(b, itemPath, failing).bench
                          IN  IF item.children # <<>>
                                THEN createStructure(dir, item.children, itemPath,
                                                     failing).bench
                                ELSE dir
                   ELSE IF item.type = "file"
                     THEN createFile(b, itemPath, item.content, failing).bench
                   ELSE b
       IN  CreateItems(made, Tail(items), basePath, failing)

\* language.toLowerCase() on the file extensions of the editors below
toLowerCase(language) ==
  CASE language = "JS" -> "js"
    [] language = "PY" -> "py"
    [] OTHER -> language

\* vscode.workspace.workspaceFolders[0].uri.fsPath + '/.sebguru-temp'
TempDir(root) == Append(root, ".sebguru-temp")
NoWorkspaceFolder == "Cannot read properties of undefined (reading '0')"

\* the switch of executeCode (3734-3763): file name and interpreter
ExecuteCase(language) ==
  CASE toLowerCase(language) \in {"javascript", "js"} -> [file |-> "temp.js", run |-> "node"]
    [] toLowerCase(language) \in {"typescript", "ts"} -> [file |-> "temp.ts", run |-> "npx ts-node"]
    [] toLowerCase(language) \in {"python", "py"} -> [file |-> "temp.py", run |-> "python"]
    [] toLowerCase(language) \in {"ruby", "rb"} -> [file |-> "temp.rb", run |-> "ruby"]
    [] toLowerCase(language) \in {"shell", "sh", "bash"} -> [file |-> "temp.sh", run |-> "bash"]
    [] OTHER -> [file |-> "", run |-> ""]

\* vscode.window.createTerminal(name); terminal.show(); terminal.sendText(command)
RunInTerminal(b, name, command) ==
  [b EXCEPT !.terminals = Append(@, [name |-> name, sent |-> <<command>>])]

\* executeCode (3724-3779); root is the workspace folder, <<>> when no
\* folder is open
executeCode(b, code, language, root, failing) ==
  LET tempDir == TempDir(root)
      chosen == ExecuteCase(language)
      tempFilePath == Append(tempDir, chosen.file)
      command == chosen.run \o " \"" \o PathString(tempFilePath) \o "\""
      dir == createDirectory(b, tempDir, failing).bench
  IN  IF root = <<>>
        THEN [bench |-> ShowMessage(b, "Failed to execute code: " \o NoWorkspaceFolder),
              returned |-> FALSE]
      ELSE IF chosen.file = ""
        THEN [bench |-> ShowMessage(dir, "Failed to execute code: Unsupported language: "
                                         \o language),
              returned |-> FALSE]
      ELSE [bench |-> RunInTerminal(createFile(dir, tempFilePath, code, failing).bench,
                                    "Code Execution", command),
            returned |-> TRUE]

\* the switch of testCode (3799-3826)
TestCase(language) ==
  CASE toLowerCase(language) \in {"javascript", "js"} ->
         [code |-> "code.js", test |-> "test.js", run |-> "npx mocha test.js"]
    [] toLowerCase(language) \in {"typescript", "ts"} ->
         [code |-> "code.ts", test |-> "test.ts",
          run |-> "npx mocha -r ts-node/register test.ts"]
    [] toLowerCase(language) \in {"python", "py"} ->
         [code |-> "code.py", test |-> "test_code.py",
          run |-> "python -m unittest test_code.py"]
    [] toLowerCase(language) \in {"ruby", "rb"} ->
         [code |-> "code.rb", test |-> "test_code.rb", run |-> "ruby test_code.rb"]
    [] OTHER -> [code |-> "", test |-> "", run |-> ""]

\* the function testCode(code, testCode, language) (3788-3843)
testCode(b, code, tests, language, root, failing) ==
  LET tempDir == TempDir(root)
      chosen == TestCase(language)
      command == "cd \"" \o PathString(tempDir) \o "\" && " \o chosen.run
      dir == createDirectory(b, tempDir, failing).bench
      codeFile == createFile(dir, Append(tempDir, chosen.code), code, failing).bench
      testFile == createFile(codeFile, Append(tempDir, chosen.test), tests, failing).bench
  IN  IF root = <<>>
        THEN [bench |-> ShowMessage(b, "Failed to test code: " \o NoWorkspaceFolder),
              returned |-> FALSE]
      ELSE IF chosen.code = ""
        THEN [bench |-> ShowMessage(dir, "Failed to test code: Unsupported language for testing: "
                                         \o language),
              returned |-> FALSE]
      ELSE [bench |-> RunInTerminal(testFile, "Code Testing", command),
            returned |-> TRUE]

\* what the operation returned, as bench keeps it
Returned(result) == IF result.returned THEN "true" ELSE "false"

\* fileName.split('.').pop() || '' of the active editor (3357-3360,
\* 3427-3430); fileName is kept as its parts between the dots
FileExtension(editor) == editor.fileName[Len(editor.fileName)]

\* the command sebguru-assistant.executeCode (3410-3441)
ExecuteCodeCommand(editor, root, failing) ==
  /\ bench' =
       IF ~editor.open
         THEN ShowMessage([NoOperation EXCEPT !.op = "executeCode"], "No active editor")
       ELSE IF editor.text = ""
         THEN ShowMessage([NoOperation EXCEPT !.op = "executeCode"], "No code to execute")
       ELSE LET result == executeCode([NoOperation EXCEPT !.op = "executeCode"],
                                      editor.text, FileExtension(editor), root, failing)
            IN  [(IF result.returned
                    THEN ShowMessage(result.bench, "Code execution started in terminal")
                    ELSE result.bench)
                 EXCEPT !.returned = Returned(result)]
  /\ UNCHANGED <<client, call, chatHistory, handlers, shown, loading, webview>>

\* testCode.replace(/```[\w]*\n/g, '').replace(/```$/g, '').trim() on the
\* answers below, which carry no fence and no outer blanks
CleanTestCode(answer) == answer.s

\* a call f(...) throws a TypeError unless the value of f is a function
IsFunction(value) == value.t = "function"

\* the command sebguru-assistant.testCode (3340-3408).  Inside the task the
\* name testCode is the constant declared at 3372, the answer of the request,
\* which hides the function of that name declared at 3788: the call at 3391
\* is a call of that value.
TestCodeCommand(editor, root, failing, answer) ==
  LET start == [NoOperation EXCEPT !.op = "testCode"]
      called ==
        IF IsFunction(answer.value)
          THEN testCode(start, editor.text, CleanTestCode(answer.value),
                        FileExtension(editor), root, failing)
          ELSE [bench |-> ShowMessage(start, "Error testing code: testCode is not a function"),
                returned |-> FALSE]
  IN
  /\ bench' =
       IF ~editor.open THEN ShowMessage(start, "No active editor")
       ELSE IF editor.text = "" THEN ShowMessage(start, "No code to test")
       ELSE IF ~answer.ok
         THEN ShowMessage(start, "Error testing code: " \o answer.message)
       ELSE IF answer.value.t # "str"
         THEN ShowMessage(start, "Error testing code: testCode.replace is not a function")
       ELSE IF called.returned
         THEN [called.bench EXCEPT !.editors = Append(@, CleanTestCode(answer.value)),
                                   !.returned = "true"]
       ELSE [called.bench EXCEPT !.returned = "false"]
  /\ UNCHANGED <<client, call, chatHistory, handlers, shown, loading, webview>>

\* the built-in structures of the command createStructure (2924-2965), cut
\* to one file per directory
ProjectStructure(projectType) ==
  CASE projectType = "nodejs" ->
         << [name |-> "src", type |-> "directory", content |-> "",
             children |-> << [name |-> "index.js", type |-> "file",
                              content |-> "console.log('Hello, Node.js!');",
                              children |-> <<>>] >>],
            [name |-> "package.json", type |-> "file", content |-> "{}",
             children |-> <<>>] >>
    [] projectType = "react" ->
         << [name |-> "src", type |-> "directory", content |-> "",
             children |-> << [name |-> "components", type |-> "directory",
                              content |-> "", children |-> <<>>],
                             [name |-> "styles", type |-> "directory", content |-> "",
                              children |-> << [name |-> "App.css", type |-> "file",
                                               content |-> ".App {}",
                                               children |-> <<>>] >>] >>] >>
    [] OTHER ->
         << [name |-> "src", type |-> "directory", content |-> "",
             children |-> << [name |-> "__init__.py", type |-> "file",
                              content |-> "", children |-> <<>>] >>],
            [name |-> "README.md", type |-> "file", content |-> "# Python Project",
             children |-> <<>>] >>

\* the end of the command sebguru-assistant.createStructure (2967-2971)
CreateStructureCommand(projectType, basePath, failing) ==
  /\ bench' =
       LET result == createStructure([NoOperation EXCEPT !.op = "createStructure"],
                                     ProjectStructure(projectType), basePath, failing)
       IN  [(IF result.returned
               THEN ShowMessage(result.bench, "Project structure created at: "
                                              \o PathString(basePath))
               ELSE result.bench)
            EXCEPT !.returned = Returned(result)]
  /\ UNCHANGED <<client, call, chatHistory, handlers, shown, loading, webview>>

\* the editors, workspace folders and file-system refusals the commands meet
Editors ==
  {[open |-> FALSE, text |-> "", fileName |-> <<"">>]}
    \cup [open : {TRUE}, text : {"", "print(1)", "x = 2"},
          fileName : {<<"main", "js">>, <<"MAIN", "JS">>, <<"main", "ts">>,
                      <<"main", "py">>, <<"main", "rb">>, <<"run", "sh">>,
                      <<"notes", "txt">>, <<"Makefile">>}]
Roots == {<<>>, <<"ws">>}
TempFiles == {"temp.js", "temp.ts", "temp.py", "temp.rb", "temp.sh"}
Refusals ==
  {{}, {TempDir(<<"ws">>)}} \cup {{Append(TempDir(<<"ws">>), f)} : f \in TempFiles}
Answers ==
  {[ok |-> TRUE, value |-> Str("tests"), message |-> ""],
   [ok |-> TRUE, value |-> Num(123), message |-> ""],
   [ok |-> FALSE, value |-> Undef, message |-> "API key not set"]}
ProjectTypes == {"nodejs", "react", "python"}
BasePaths == {<<"ws", "app">>, <<"ws", "demo">>}
StructurePaths(basePath) ==
  {basePath \o names :
     names \in {<<>>, <<"src">>, <<"src", "index.js">>, <<"package.json">>,
                <<"src", "components">>, <<"src", "styles">>,
                <<"src", "styles", "App.css">>, <<"src", "__init__.py">>,
                <<"README.md">>}}

InitFiles ==
  /\ client = NewClient(DefaultConfig)
  /\ call = NoCall
  /\ NoUserAction
NextFiles ==
  \/ \E editor \in Editors, root \in Roots, failing \in Refusals :
       ExecuteCodeCommand(editor, root, failing)
  \/ \E editor \in Editors, root \in Roots, failing \in Refusals, answer \in Answers :
       TestCodeCommand(editor, root, failing, answer)
  \/ \E projectType \in ProjectTypes, basePath \in BasePaths :
       \E failing \in SUBSET StructurePaths(basePath) :
         CreateStructureCommand(projectType, basePath, failing)
SpecFiles == InitFiles /\ [][NextFiles]_vars

(***************************************************************************)
(* The HTML of a chat turn (_formatMessageContent 1793-1830 and the        *)
(* panel's formatMessageContent 2172-2209, the same code).  A content is   *)
(* the sequence of its characters; the HTML is a sequence of pieces, each  *)
(* a piece of text that came from the content, Text(chars), or markup the  *)
(* code generated, Markup(chars).                                          *)
(***************************************************************************)
Text(chars) == [from |-> "content", chars |-> chars]
Markup(chars) == [from |-> "code", chars |-> chars]

\* the character ` of a content, which a TLA+ string cannot hold
Backtick == "[backtick]"

\* _escapeHtml (1832-1839), character by character
EscapeChar(ch) ==
  CASE ch = "&" -> "&amp;"
    [] ch = "<" -> "&lt;"
    [] ch = ">" -> "&gt;"
    [] ch = "\"" -> "&quot;"
    [] ch = "'" -> "&#039;"
    [] OTHER -> ch
_escapeHtml(unsafe) == [i \in 1..Len(unsafe) |-> Text(EscapeChar(unsafe[i]))]

IsWordChar(ch) == ch \in {"a", "j", "s"}
IsFenceAt(s, i) ==
  i + 2 <= Len(s) /\ s[i] = Backtick /\ s[i + 1] = Backtick /\ s[i + 2] = Backtick

\* the end of [\w]* from position i: the first position that is no word
\* character
RECURSIVE WordEnd(_, _)
WordEnd(s, i) == IF i <= Len(s) /\ IsWordChar(s[i]) THEN WordEnd(s, i + 1) ELSE i

\* the first closing fence at or after position i, 0 when there is none
RECURSIVE NextFence(_, _)
NextFence(s, i) ==
  IF i > Len(s) THEN 0 ELSE IF IsFenceAt(s, i) THEN i ELSE NextFence(s, i + 1)

\* the replacement of one code block (1797-1802)
CodeBlock(language, code) ==
  <<Markup("<div class=\"code-block\"><div class=\"code-header\">"
           \o (IF language = "" THEN "code" ELSE language)
           \o "</div><pre><code class=\"language-"
           \o (IF language = "" THEN "text" ELSE language) \o "\">")>>
    \o _escapeHtml(code)
    \o <<Markup("</code></pre></div>")>>

\* content.replace(/```([\w]*)\n([\s\S]*?)```/g, ...) from position i
RECURSIVE ReplaceCodeBlocks(_, _)
ReplaceCodeBlocks(s, i) ==
  IF i > Len(s) THEN <<>>
  ELSE LET nl == WordEnd(s, i + 3)
           close == NextFence(s, nl + 1)
       IN  IF IsFenceAt(s, i) /\ nl <= Len(s) /\ s[nl] = "\n" /\ close # 0
             THEN CodeBlock(Concat(SubSeq(s, i + 3, nl - 1)),
                            SubSeq(s, nl + 1, close - 1))
                    \o ReplaceCodeBlocks(s, close + 3)
             ELSE <<Text(s[i])>> \o ReplaceCodeBlocks(s, i + 1)

\* the next backtick at or after position i, 0 when there is none
RECURSIVE NextBacktick(_, _)
NextBacktick(s, i) ==
  IF i > Len(s) THEN 0
  ELSE IF s[i] = Text(Backtick) THEN i ELSE NextBacktick(s, i + 1)

\* formattedContent.replace(/`([^`]+)`/g, '<code>$1</code>') from position i
RECURSIVE ReplaceInlineCode(_, _)
ReplaceInlineCode(s, i) ==
  IF i > Len(s) THEN <<>>
  ELSE LET close == NextBacktick(s, i + 1)
       IN  IF s[i] = Text(Backtick) /\ close > i + 1
             THEN <<Markup("<code>")>> \o SubSeq(s, i + 1, close - 1)
                    \o <<Markup("</code>")>> \o ReplaceInlineCode(s, close + 1)
             ELSE <<s[i]>> \o ReplaceInlineCode(s, i + 1)

\* .replace(/\n(?!<\/pre>)/g, '<br>') (1819): no line break stands before
\* '</pre>', which the code always writes after '</code>'
ReplaceLineBreaks(s) ==
  [i \in 1..Len(s) |-> IF s[i] = Text("\n") THEN Markup("<br>") ELSE s[i]]

\* _formatMessageContent (1793-1830).  The contents below hold no '*', '#',
\* '-' and no digit, so the replacements for bold, italic, headers and list
\* items (1809-1817, 1822-1825) find nothing to replace.
_formatMessageContent(content) ==
  IF content = <<>> THEN <<>>
  ELSE ReplaceLineBreaks(ReplaceInlineCode(ReplaceCodeBlocks(content, 1), 1))

\* the webview renders the turn it was given (1512, 2162)
RenderMessage ==
  /\ webview.html = <<>>
  /\ webview' = [webview EXCEPT !.html = _formatMessageContent(webview.content)]
  /\ UNCHANGED <<client, call, chatHistory, handlers, shown, loading, bench>>

\* the contents rendered: up to MaxPieces pieces of text, each a character
\* or a fence
MaxPieces == 5
Pieces == {<<Backtick, Backtick, Backtick>>, <<Backtick>>, <<"\n">>, <<"<">>, <<"&">>, <<"j", "s">>}
RECURSIVE ContentsOf(_)
ContentsOf(n) ==
  IF n = 0 THEN {<<>>}
  ELSE ContentsOf(n - 1)
         \cup {piece \o content : piece \in Pieces, content \in ContentsOf(n - 1)}

InitWebview ==
  /\ client = NewClient(DefaultConfig)
  /\ call = NoCall
  /\ chatHistory = [session \in {"sidebar", "panel"} |-> <<>>]
  /\ handlers = <<>>
  /\ shown = <<>>
  /\ loading = [session \in {"sidebar", "panel"} |-> FALSE]
  /\ bench = NoOperation
  /\ webview \in {[content |-> content, html |-> <<>>] :
                    content \in ContentsOf(MaxPieces)}
NextWebview == RenderMessage
SpecWebview == InitWebview /\ [][NextWebview]_vars

(***************************************************************************)
(* Properties                                                              *)
(***************************************************************************)
\* the server answered the call of this mode with call.payload
Answered(mode) == call.answered /\ call.mode = mode

RawFallbackOf(payload) == Return(Str("AI response (raw format): " \o JSONstringify(payload)))

RECURSIVE HasString(_)
RECURSIVE AnyHasString(_)
\* a string occurs somewhere in v
HasString(v) ==
  CASE v.t = "str" -> TRUE
    [] v.t = "obj" -> AnyHasString([i \in 1..Len(v.f) |-> v.f[i].v])
    [] v.t = "arr" -> AnyHasString(v.e)
    [] OTHER -> FALSE
AnyHasString(vs) ==
  IF vs = <<>> THEN FALSE ELSE HasString(Head(vs)) \/ AnyHasString(Tail(vs))

RECURSIVE IsPlainChain(_)
RECURSIVE SoleLeaf(_)
RECURSIVE LeafDepth(_)
\* v is a leaf, or one array item or one field named foo or bar, holding such a value
IsPlainChain(v) ==
  CASE v.t = "obj" -> Len(v.f) = 1 /\ v.f[1].k \in {"foo", "bar"} /\ IsPlainChain(v.f[1].v)
    [] v.t = "arr" -> Len(v.e) = 1 /\ IsPlainChain(v.e[1])
    [] OTHER -> TRUE
SoleLeaf(v) ==
  CASE v.t = "obj" -> SoleLeaf(v.f[1].v)
    [] v.t = "arr" -> SoleLeaf(v.e[1])
    [] OTHER -> v
LeafDepth(v) ==
  CASE v.t = "obj" -> 1 + LeafDepth(v.f[1].v)
    [] v.t = "arr" -> 1 + LeafDepth(v.e[1])
    [] OTHER -> 0

\* C1: a local response whose payload is null, undefined or {} makes the
\* call fail with an error; it never completes with some text.
C1_EmptyPayloadSignalsError ==
  (Answered("local") /\ (call.payload.t \in {"null", "undef"} \/ call.payload = Obj(<<>>)))
    => call.status = "rejected"

\* C2: whenever a call (local or remote) completes successfully, the value
\* it returns is a string, never null or undefined or another value.
C2_SuccessIsAString ==
  call.status = "resolved" => call.outcome.value.t = "str"

\* C3: a local response whose whole payload is the bare string s, the empty
\* string included, is normalized to exactly s.
C3_BareStringUnchanged ==
  (Answered("local") /\ call.payload.t = "str")
    => (call.status = "resolved" /\ call.outcome = Return(call.payload))

C3_Witness ==
  Answered("local") /\ call.payload = Str("") /\ call.outcome = Return(Str(""))

\* C4: for a payload with a choices array of length >= 1, the result is
\* choices[0].message.content when choices[0] has a message object, otherwise
\* choices[0].text when it has a text field, for every string content or text
\* and whatever other top-level fields there are.
C4_FirstChoiceDecides ==
  LET choices == Get(call.payload, "choices")
      c0 == Index0(choices)
      message == Get(c0, "message")
  IN  (Answered("local") /\ call.payload.t = "obj" /\ choices.t = "arr"
         /\ Len(choices.e) >= 1 /\ c0.t = "obj")
        => /\ (message.t = "obj" /\ Get(message, "content").t = "str")
                => call.outcome = Return(Get(message, "content"))
           /\ (message.t = "undef" /\ Get(c0, "text").t = "str")
                => call.outcome = Return(Get(c0, "text"))

\* C5: for every string X, the payloads {message:{content:X}}, {response:X}
\* and {output:X} are normalized to exactly X.
C5_KnownFieldReturned ==
  \A X \in Strs :
    (Answered("local")
       /\ call.payload \in {Obj(<<Field("message", Obj(<<Field("content", Str(X))>>))>>),
                            Obj(<<Field("response", Str(X))>>),
                            Obj(<<Field("output", Str(X))>>)})
      => call.outcome = Return(Str(X))

\* C6: the first matching step in the fixed priority order decides, so a
\* payload whose choices[0] has neither message nor text is handled by the
\* message.content, response and output steps before any scan.
C6_KnownFormatsBeforeScan ==
  LET choices == Get(call.payload, "choices")
      c0 == Index0(choices)
      content == Get(Get(call.payload, "message"), "content")
      response == Get(call.payload, "response")
      output == Get(call.payload, "output")
      isText(v) == v.t = "str" /\ v.s # ""
  IN  (Answered("local") /\ call.payload.t = "obj" /\ choices.t = "arr"
         /\ Len(choices.e) >= 1 /\ c0.t = "obj"
         /\ Get(c0, "message").t = "undef" /\ Get(c0, "text").t = "undef")
        => /\ isText(content) => call.outcome = Return(content)
           /\ (~isText(content) /\ isText(response)) => call.outcome = Return(response)
           /\ (~isText(content) /\ ~isText(response) /\ isText(output))
                => call.outcome = Return(output)

\* C7: a non-empty object payload that holds no string anywhere is
\* normalized, without an error, to the raw-format marker followed by the
\* JSON serialization of the whole payload.
C7_NoStringGivesRawFallback ==
  (Answered("local") /\ call.payload.t = "obj" /\ call.payload.f # <<>>
     /\ ~HasString(call.payload))
    => (call.status = "resolved" /\ call.outcome = RawFallbackOf(call.payload))

RECURSIVE TextsWithin(_, _)
\* the non-empty strings nested at most depth levels below v
TextsWithin(v, depth) ==
  IF depth < 0 THEN {}
  ELSE CASE v.t = "str" -> IF v.s # "" THEN {v.s} ELSE {}
         [] v.t = "obj" -> UNION {TextsWithin(v.f[i].v, depth - 1) : i \in 1..Len(v.f)}
         [] v.t = "arr" -> UNION {TextsWithin(v.e[i], depth - 1) : i \in 1..Len(v.e)}
         [] OTHER -> {}

IsMakeRequest == call.status # "awaiting" /\ call' # call

\* C9: in remote mode with no API key, makeRequest fails with the
\* configuration error and issues no HTTP POST, whatever the prompt and
\* whatever configuration changes came before.
C9_NoKeyNoPost ==
  [][(IsMakeRequest /\ ~client.useLocalLLM /\ client.apiKey = "")
       => (call'.status = "rejected" /\ ~call'.posted
           /\ call'.outcome.kind = "throw"
           /\ call'.outcome.value = Str("SebGuru API key not set. Please set your API key in the extension settings or switch to using a local LLM."))]_vars

C9_Witness ==
  /\ ~client.useLocalLLM /\ client.apiKey = ""
  /\ client.apiHostname = "api.sebguru.ai" /\ client.model = "sebguru-fast"
  /\ call.mode = "remote" /\ call.status = "rejected" /\ ~call.posted
  /\ call.options.maxTokens = Num(4096)

BodyKeys(body) == {body.f[i].k : i \in 1..Len(body.f)}
IsMessages(v) ==
  /\ v.t = "arr" /\ Len(v.e) = 2
  /\ Get(v.e[1], "role") = Str("system") /\ Get(v.e[2], "role") = Str("user")
IsGenerateShape(body) ==
  /\ {"model", "prompt", "system", "stream"} \subseteq BodyKeys(body)
  /\ BodyKeys(body) \subseteq {"model", "prompt", "system", "stream", "num_predict", "temperature"}
  /\ Get(body, "stream") = Bool(FALSE)
IsChatShape(body) ==
  /\ {"model", "messages", "stream"} \subseteq BodyKeys(body)
  /\ BodyKeys(body) \subseteq {"model", "messages", "stream", "options"}
  /\ IsMessages(Get(body, "messages"))
IsCompletionsShape(body) ==
  /\ BodyKeys(body) = {"model", "messages", "max_tokens", "temperature"}
  /\ IsMessages(Get(body, "messages"))

\* C10: the body shape of a local request is a function of the configured
\* path alone: '/api/generate' gives the generate shape, '/api/chat' the
\* Ollama-chat shape, every other path the chat-completions shape.
C10_ShapeFollowsPath ==
  [][(IsMakeRequest /\ client.useLocalLLM)
       => /\ call'.posted
          /\ IF client.localLLMPath = <<"/", "api/generate">> THEN IsGenerateShape(call'.body)
             ELSE IF client.localLLMPath = <<"/", "api/chat">> THEN IsChatShape(call'.body)
             ELSE IsCompletionsShape(call'.body)]_vars

C10_Witness ==
  /\ call.mode = "local" /\ call.posted /\ call.path = <<"api/chat">>
  /\ IsCompletionsShape(call.body)
  /\ call.options.temperature = Num(2)

\* where the Ollama shapes carry num_predict and temperature: the body
\* itself (generate) or its options object (chat)
OllamaOptions(body, path) ==
  IF path = <<"/", "api/generate">> THEN body ELSE Get(body, "options")

\* C11: in the Ollama-generate and Ollama-chat shapes, a request whose
\* options give no maxTokens carries no num_predict, and one whose options
\* give no temperature carries no temperature.
C11_OnlyGivenOptionsSent ==
  (call.mode = "local" /\ call.posted
     /\ call.path \in {<<"/", "api/generate">>, <<"/", "api/chat">>})
    => /\ call.options.maxTokens.t = "undef"
            => Get(OllamaOptions(call.body, call.path), "num_predict").t = "undef"
       /\ call.options.temperature.t = "undef"
            => Get(OllamaOptions(call.body, call.path), "temperature").t = "undef"

\* the error messages shown by the handler id
ShownBy(id) == {i \in 1..Len(shown) : shown[i].by = id}

\* C12: for askAI, explainCode, improveCode, generateCode and runWorkflow,
\* a request of the command that is rejected (no API key, failed HTTP call,
\* unusable response) leads to an error message shown by that command.
C12_RejectionIsShown ==
  \A id \in 1..Len(handlers) :
    (/\ handlers[id].kind = "command"
     /\ handlers[id].name \in {"askAI", "explainCode", "improveCode", "generateCode",
                               "runWorkflow"}
     /\ handlers[id].req.status = "rejected")
      => ShownBy(id) # {}

\* C13: every action of the user (a command, a sendMessage) issues at most
\* one HTTP POST, and a request that fails is reported to the user once:
\* it is not sent again, and its failure is shown exactly one time.
C13_OnePostOneReport ==
  \A id \in 1..Len(handlers) :
    /\ handlers[id].posts <= 1
    /\ handlers[id].req.status = "rejected" => Cardinality(ShownBy(id)) = 1

\* C14: a configuration change applied while a request is in flight has
\* no effect on that request: its URL, body and headers stay as issued, and
\* the error it reports when the HTTP call fails is the one fixed by the
\* configuration at the moment it was issued (it names the server the
\* request was sent to).
C14_InFlightUnaffected ==
  [][call.status = "awaiting"
       => /\ call'.url = call.url /\ call'.body = call.body
          /\ call'.authorization = call.authorization
          /\ (call.mode = "local" /\ call'.status = "rejected")
               => call'.outcome.value.s =
                    "Failed to get response from local LLM: connect ECONNREFUSED"
                      \o ". Make sure your local LLM server is running at "
                      \o Concat(call.server)]_vars

\* C15: the chat history has a single writer: while a sendMessage handler
\* waits for its response, the history of its session changes only by that
\* handler's own completion; no other sendMessage and no clearChat changes it.
C15_SingleWriter ==
  [][\A id \in 1..Len(handlers) :
       (/\ handlers[id].kind = "sendMessage" /\ handlers[id].state = "awaiting"
        /\ chatHistory'[handlers[id].name] # chatHistory[handlers[id].name])
         => handlers'[id].state = "done"]_vars

\* one turn was pushed at the end of the history of the session
AppendsOneTurn(session) ==
  /\ Len(chatHistory'[session]) = Len(chatHistory[session]) + 1
  /\ SubSeq(chatHistory'[session], 1, Len(chatHistory[session])) = chatHistory[session]
  /\ chatHistory'[session][Len(chatHistory'[session])].role \in {"user", "assistant"}

\* the user's clear action is handled for the session: the history is
\* emptied and nothing else happens
Clears(session) ==
  /\ chatHistory' = [chatHistory EXCEPT ![session] = <<>>]
  /\ UNCHANGED <<client, call, handlers, shown, loading, bench, webview>>

\* C16: the history of a chat session is an append-only sequence of turns
\* with role user or assistant: every step that changes it appends exactly
\* one turn at its end, or is the user's clear action, which empties it;
\* and every session, the sidebar view and the panel, can be cleared by the
\* user (whenever an event can be handled, its clear action can).
C16_AppendOnlyClearable ==
  /\ [][\A session \in {"sidebar", "panel"} :
          \/ chatHistory'[session] = chatHistory[session]
          \/ AppendsOneTurn(session)
          \/ Clears(session)]_vars
  /\ [](\A session \in {"sidebar", "panel"} :
          (Idle /\ chatHistory[session] # <<>>) => ENABLED (NextUI /\ Clears(session)))

\* C17: a chat request is raced against the 60 s timer and the first of
\* the two to settle decides.  When the timer fires while the handler
\* waits, the timeout error is shown and the handler ends; the response that
\* arrives later changes neither a chat history nor what was shown; and a
\* timer that fires after the handler has ended changes nothing either.
C17_FirstSettledDecides ==
  [][\A id \in 1..Len(handlers) :
       LET h == handlers[id]
           after == handlers'[id]
       IN  h.kind = "sendMessage"
             => /\ (h.state = "awaiting" /\ h.timer = "pending" /\ after.timer = "fired")
                     => /\ after.state = "done"
                        /\ shown' = Append(shown,
                                     [by |-> id,
                                      text |-> "AI Assistant error: Request timed out after 60 seconds"])
                /\ (h.state = "done" /\ h.req.status = "awaiting"
                      /\ after.req.status # "awaiting")
                     => (after.state = "done" /\ after.end = h.end
                         /\ UNCHANGED <<chatHistory, shown>>)
                /\ (h.state = "done" /\ h.timer = "pending" /\ after.timer = "fired")
                     => (after = [h EXCEPT !.timer = "fired"]
                         /\ UNCHANGED <<chatHistory, shown>>)]_vars

\* the timer won, and the response that came later left the history as the
\* timeout had left it
C17_Witness ==
  /\ Len(handlers) = 1
  /\ handlers[1].kind = "sendMessage" /\ handlers[1].name = "sidebar"
  /\ handlers[1].timer = "fired" /\ handlers[1].end = "error"
  /\ handlers[1].req.status = "resolved" /\ handlers[1].req.outcome = Return(Str("X"))
  /\ chatHistory["sidebar"]
       = <<Turn("user", Str("hello")),
           Turn("assistant",
                Str("I'm sorry, I encountered an error: Request timed out after 60 seconds. Please try again or check the server logs."))>>

C19_LocalRequestStaysLocal ==
  [][(IsMakeRequest /\ client.useLocalLLM)
       => /\ call'.posted /\ call'.mode = "local"
          /\ call'.url = LocalUrl(client)
          /\ call'.url # client.baseUrl \o "/chat/completions"
          /\ call'.authorization = ""
          /\ \A apiKey \in {"", "sk-1", "sk-2"} :
               IssueRequest([client EXCEPT !.apiKey = apiKey], call'.prompt, call'.options)
                 = call']_vars

C19_Witness ==
  /\ client.useLocalLLM /\ client.apiKey = "sk-1"
  /\ call.mode = "local" /\ call.status = "awaiting" /\ call.posted
  /\ call.url = "http://127.0.0.1:11434/api/chat" /\ call.authorization = ""

RECURSIVE WithoutTrailingSlashes(_)
WithoutTrailingSlashes(tokens) ==
  IF tokens # <<>> /\ tokens[Len(tokens)] = "/"
    THEN WithoutTrailingSlashes(SubSeq(tokens, 1, Len(tokens) - 1))
    ELSE tokens

RECURSIVE WithoutLeadingSlashes(_)
WithoutLeadingSlashes(tokens) ==
  IF tokens # <<>> /\ Head(tokens) = "/" THEN WithoutLeadingSlashes(Tail(tokens))
  ELSE tokens

\* C20: in the URL of a local request exactly one '/' stands between the
\* configured server URL and the configured path, however many slashes the
\* URL ends with and the path starts with.
C20_OneSlashAtJoin ==
  (call.mode = "local" /\ call.posted)
    => call.url = Concat(WithoutTrailingSlashes(call.server)) \o "/"
                    \o Concat(WithoutLeadingSlashes(call.path))

(***************************************************************************)
(* The commands on files                                                   *)
(***************************************************************************)
\* the test run has left its traces: both files in the temporary directory,
\* one terminal with the test command, the test code in an editor
TestsRan ==
  /\ bench.op = "testCode"
  /\ \E codeFile, testFile \in bench.files :
       /\ codeFile.path # testFile.path
       /\ DirName(codeFile.path) = TempDir(<<"ws">>)
       /\ DirName(testFile.path) = TempDir(<<"ws">>)
       /\ testFile.content = "tests"
  /\ Len(bench.terminals) = 1
  /\ bench.terminals[1].name = "Code Testing"
  /\ \E i \in 1..Len(bench.editors) : bench.editors[i] = "tests"

TestedEditors ==
  {editor \in Editors :
     /\ editor.open
     /\ editor.text # ""
     /\ toLowerCase(FileExtension(editor)) \in {"js", "ts", "py", "rb"}}

\* C21: when 'AI: Test Code' is run on code of a supported language (js, ts,
\* py, rb), in an open workspace folder whose file system refuses nothing,
\* and the model returns test code, the command writes the code file and the
\* test file to the temporary directory, sends the test command to a
\* terminal and shows the test code in a new editor.
C21_TestCodeRunsTests ==
  [][\A editor \in TestedEditors :
       TestCodeCommand(editor, <<"ws">>, {},
                       [ok |-> TRUE, value |-> Str("tests"), message |-> ""])
         => TestsRan']_vars

Showed(text) == \E i \in 1..Len(bench.messages) : bench.messages[i] = text

\* some directory or file of the operation was not created
CreationFailed ==
  \/ Showed("Failed to create directory: " \o FsError)
  \/ Showed("Failed to create file: " \o FsError)

\* C25: createStructure returns true exactly when nothing failed: if the
\* creation of any directory or file, at any nesting level, fails,
\* createStructure returns false and the message 'Project structure created
\* at: ...' is not shown.
C25_TrueOnlyWhenAllCreated ==
  bench.op = "createStructure" =>
    /\ bench.returned = "true" <=> ~CreationFailed
    /\ CreationFailed =>
         \A basePath \in BasePaths :
           ~Showed("Project structure created at: " \o PathString(basePath))

\* C30: executeCode sends the run command to a terminal only after the code
\* has been written to the temporary file: if the language is unsupported or
\* the file write fails, no terminal is created, no command is sent, and
\* executeCode returns false.
C30_RunsOnlyWrittenCode ==
  bench.op = "executeCode" =>
    /\ bench.terminals # <<>> =>
         \E file \in bench.files : DirName(file.path) = TempDir(<<"ws">>)
    /\ (CreationFailed \/ bench.files = {}) =>
         /\ bench.terminals = <<>>
         /\ bench.returned # "true"

(***************************************************************************)
(* The chat-completions body and the path requested                        *)
(***************************************************************************)
\* C23: in the chat-completions shape (unknown local path and remote
\* requests) max_tokens is options.maxTokens when the caller gave one and the
\* configured maxTokens otherwise, and temperature is options.temperature
\* for every value the caller gave, 0 included; the default 0.7 is used only
\* when the caller gave none.
C23_CompletionsOptions ==
  [][(IsMakeRequest /\ call'.posted /\ IsCompletionsShape(call'.body))
       => /\ Get(call'.body, "max_tokens") =
               IF call'.options.maxTokens.t = "undef" THEN Num(client.maxTokens)
               ELSE call'.options.maxTokens
          /\ Get(call'.body, "temperature") =
               IF call'.options.temperature.t = "undef" THEN Num(DefaultTemperature)
               ELSE call'.options.temperature]_vars

\* the path joined to the base URL of a local request (1186): the configured
\* path, with a leading slash supplied when it has none
UrlPath(c) ==
  Concat(IF startsWithSlash(c.localLLMPath) THEN c.localLLMPath
         ELSE <<"/">> \o c.localLLMPath)

\* C29: the body sent matches the path requested: a local request whose URL
\* path, after the leading slash is supplied, is /api/chat carries the
\* Ollama-chat body, and one whose URL path is /api/generate carries the
\* generate body.
C29_BodyMatchesUrlPath ==
  [][(IsMakeRequest /\ client.useLocalLLM /\ call'.posted)
       => /\ UrlPath(client) = Concat(<<"/", "api/chat">>) => IsChatShape(call'.body)
          /\ UrlPath(client) = Concat(<<"/", "api/generate">>)
               => IsGenerateShape(call'.body)]_vars

(***************************************************************************)
(* The remote base URL                                                     *)
(***************************************************************************)
\* C26: after any sequence of constructor, updateConfig, setApiKey and
\* setModel calls, baseUrl is https://{apiHostname}/{apiVersion} of the
\* client's hostname and version, these are the hostname and version of the
\* settings most recently given (those a client constructed from them
\* has), and a remote request is posted to baseUrl/chat/completions.
C26_BaseUrlOfCurrentSettings ==
  /\ [](client.baseUrl = BaseUrlOf(client.apiHostname, client.apiVersion))
  /\ [][\A config \in Configs :
          UpdateConfig(config)
            => /\ client'.apiHostname = NewClient(config).apiHostname
               /\ client'.apiVersion = NewClient(config).apiVersion]_vars
  /\ []((call.mode = "remote" /\ call.posted)
          => \E hostname \in {"localhost:3000", "api.sebguru.ai"}, version \in {"v1", "v2"} :
               call.url = BaseUrlOf(hostname, version) \o "/chat/completions")

(***************************************************************************)
(* The HTML of a chat turn                                                 *)
(***************************************************************************)
\* C24: the text of a chat turn is HTML-escaped before it is put into the
\* webview HTML: no '<', '>' or '&' of the content stands unescaped in the
\* HTML _formatMessageContent produces, inside or outside a fenced code
\* block.
C24_ContentIsEscaped ==
  \A i \in 1..Len(webview.html) :
    webview.html[i] \notin {Text("<"), Text(">"), Text("&")}

(***************************************************************************)
(* Turns and loading indicator of a chat under interleaving                *)
(***************************************************************************)
\* the sendMessage handlers of the session that wait for their outcome
Waiting(session) ==
  {id \in 1..Len(handlers) :
     /\ handlers[id].kind = "sendMessage" /\ handlers[id].name = session
     /\ handlers[id].state = "awaiting"}

\* the number of turns of the role among the first n turns of the history
TurnsOf(role, history, n) ==
  Cardinality({i \in 1..n : history[i].role = role})

\* C27: in the sidebar chat, under any interleaving of sendMessage,
\* clearChat, completion, failure and timeout, each assistant turn is
\* preceded by the user turn it answers: no beginning of the history holds
\* more assistant turns than user turns, once no request is in flight the
\* history holds as many assistant turns as user turns, and an empty history
\* stays empty until the next sendMessage.
C27_AssistantAnswersUser ==
  /\ [](\A n \in 0..Len(chatHistory["sidebar"]) :
          TurnsOf("assistant", chatHistory["sidebar"], n)
            <= TurnsOf("user", chatHistory["sidebar"], n))
  /\ [](Waiting("sidebar") = {}
          => TurnsOf("assistant", chatHistory["sidebar"], Len(chatHistory["sidebar"]))
               = TurnsOf("user", chatHistory["sidebar"], Len(chatHistory["sidebar"])))
  /\ [][(chatHistory["sidebar"] = <<>> /\ chatHistory'["sidebar"] # <<>>)
          => chatHistory'["sidebar"][1].role = "user"]_vars

\* C28: the loading indicator follows the requests in flight of a chat:
\* under any interleaving of several sendMessage events the last setLoading
\* posted is 'true' whenever at least one request of that chat still awaits
\* its outcome, and 'false' only when none does.
C28_LoadingFollowsRequests ==
  \A session \in {"sidebar", "panel"} :
    loading[session] <=> Waiting(session) # {}

\* the handler id is a sendMessage handler
IsSendMessage(id) == id <= Len(handlers) /\ handlers[id].kind = "sendMessage"

\* the handler id ends in this step
Ends(id) == handlers[id].state = "awaiting" /\ handlers'[id].state = "done"

\* one assistant turn was pushed at the end of the history of the session
AppendsAssistantTurn(session) ==
  /\ AppendsOneTurn(session)
  /\ chatHistory'[session][Len(chatHistory'[session])].role = "assistant"

\* C22: every chat sendMessage finishes, even if the HTTP call never
\* settles: the handler ends, at its end exactly one assistant turn (the
\* response or an error text) is appended for the message and the loading
\* indicator is switched off, a handler that has ended appends nothing more,
\* and the chat takes the next sendMessage with a new request.
C22_SendMessageFinishes ==
  /\ \A id \in 1..MaxActions :
       IsSendMessage(id) ~> (IsSendMessage(id) /\ handlers[id].state = "done")
  /\ [][\A id \in 1..Len(handlers) :
          (handlers[id].kind = "sendMessage" /\ Ends(id))
            => /\ AppendsAssistantTurn(handlers[id].name)
               /\ ~loading'[handlers[id].name]]_vars
  /\ [][\A session \in {"sidebar", "panel"} :
          TurnsOf("assistant", chatHistory'[session], Len(chatHistory'[session]))
              > TurnsOf("assistant", chatHistory[session], Len(chatHistory[session]))
            => \E id \in 1..Len(handlers) :
                 /\ handlers[id].name = session /\ Ends(id)
                 /\ \A other \in 1..Len(handlers) \ {id} :
                      handlers'[other] = handlers[other]]_vars
  /\ [][\A id \in 1..Len(handlers) :
          handlers[id].state = "done" => handlers'[id].state = "done"]_vars
  /\ [](\A id \in 1..Len(handlers) :
          (handlers[id].kind = "sendMessage" /\ handlers[id].state = "done"
             /\ Idle /\ Len(handlers) < MaxActions)
            => ENABLED SendMessage(handlers[id].name, "thanks"))

\* a sendMessage whose HTTP call has not settled has ended by its timer
C22_Witness ==
  \E id \in 1..Len(handlers) :
    /\ handlers[id].kind = "sendMessage"
    /\ handlers[id].state = "done"
    /\ handlers[id].req.status = "awaiting"
    /\ ~loading[handlers[id].name]
    /\ chatHistory[handlers[id].name] # <<>>
    /\ chatHistory[handlers[id].name][Len(chatHistory[handlers[id].name])]
         = ErrorTurn(TimedOut)

====
